---- MODULE Spec2Model ----
(***************************************************************************)
(* A model of main.py, the water-alert job of ต.โพนางดำออก: one run of the  *)
(* __main__ block, with the acquisition functions, the classifier and      *)
(* composer, and the notifier.                                             *)
(*                                                                         *)
(* Representation.  A Python float is a whole number of thousandths        *)
(* (11.50 m is 11500, 2400 m3/s is 2400000).  An optional value is a       *)
(* sequence: <<>> is None and <<v>> is the value v.  A Python str that is   *)
(* parsed is a sequence of one-character strings.  A text produced by a    *)
(* format such as {x:.2f} is the number of hundredths it prints.  A        *)
(* message is a sequence of lines, each line a record with a tag t.        *)
(***************************************************************************)
EXTENDS Integers, Sequences, FiniteSets, TLC

VARIABLES
    pc,             \* position of the run in the __main__ block
    LINE_TOKEN,     \* the module-level token: <<>> when the variable is unset
    attempt,        \* loop index of get_sapphaya_data
    response,       \* what the request brought after which a core source
                    \* returned; dropped by the step after the next one
    log,            \* the outward steps taken so far, in order
    water_level,    \* __main__ locals, Unset before their assignment
    bank_level,
    dam_discharge,
    hist_2567,
    hist_2554,
    core_message,
    weather_alert,
    final_message,
    posted,         \* payloads handed to requests.post by send_line_broadcast
    raised,         \* TRUE once an exception has left a function of the run
    fn              \* arguments of a direct call of a function (FnSpec,
                    \* WeatherSpec)

vars == <<pc, LINE_TOKEN, attempt, response, log, water_level, bank_level, dam_discharge,
          hist_2567, hist_2554, core_message, weather_alert, final_message,
          posted, raised, fn>>

None == <<>>
Some(v) == <<v>>
Unset == <<"unset", "unset">>

(***************************************************************************)
(* float(): the decimal strings the sources send.  An empty string, a      *)
(* string with another character or with two points is a ValueError,       *)
(* given here as None.  Fraction digits beyond the third are not drawn.    *)
(***************************************************************************)
Digits == {"0", "1", "2", "3", "4", "5", "6", "7", "8", "9"}

DigitVal(c) ==
    CASE c = "0" -> 0 [] c = "1" -> 1 [] c = "2" -> 2 [] c = "3" -> 3
      [] c = "4" -> 4 [] c = "5" -> 5 [] c = "6" -> 6 [] c = "7" -> 7
      [] c = "8" -> 8 [] c = "9" -> 9

RECURSIVE DigitsVal(_)
DigitsVal(s) ==
    IF s = <<>> THEN 0
    ELSE DigitsVal(SubSeq(s, 1, Len(s) - 1)) * 10 + DigitVal(s[Len(s)])

IsDigits(s) == \A i \in 1..Len(s) : s[i] \in Digits

\* the fraction digits as thousandths: "5" is 500, "50" is 500, "504" is 504
FracVal(s) ==
    CASE Len(s) = 0 -> 0
      [] Len(s) = 1 -> DigitsVal(s) * 100
      [] Len(s) = 2 -> DigitsVal(s) * 10
      [] OTHER      -> DigitsVal(SubSeq(s, 1, 3))

float(s) ==
    LET dots == {i \in 1..Len(s) : s[i] = "."}
    IN  IF dots = {}
        THEN IF Len(s) > 0 /\ IsDigits(s) THEN Some(DigitsVal(s) * 1000) ELSE None
        ELSE IF Cardinality(dots) > 1 THEN None
        ELSE LET p  == CHOOSE i \in dots : TRUE
                 ip == SubSeq(s, 1, p - 1)
                 fp == SubSeq(s, p + 1, Len(s))
             IN  IF IsDigits(ip) /\ IsDigits(fp) /\ Len(ip) + Len(fp) > 0
                 THEN Some(DigitsVal(ip) * 1000 + FracVal(fp))
                 ELSE None

\* str.replace(',', '')
replace_commas(s) == SelectSeq(s, LAMBDA c : c # ",")

\* a format that cuts the third decimal off
Format2f_cut(x) == x \div 10

(***************************************************************************)
(* {x:.2f}: x in thousandths to the nearest hundredth, a tie to the even   *)
(* hundredth.                                                              *)
(***************************************************************************)
Format2f(x) ==
    LET q == x \div 10
        r == x % 10
    IN  IF r < 5 THEN q
        ELSE IF r > 5 THEN q + 1
        ELSE IF q % 2 = 0 THEN q ELSE q + 1

(***************************************************************************)
(* Exceptions.  A function body evaluates to an outcome record: o is       *)
(* "return", "exc" (an exception of class e is raised) or, for the loop    *)
(* body of get_sapphaya_data, "nomatch".  The classes drawn all derive     *)
(* from Exception, which is what `except Exception` catches.               *)
(***************************************************************************)
ExceptionClasses ==
    {"ConnectionError", "Timeout", "HTTPError", "JSONDecodeError",
     "AttributeError", "TypeError", "ValueError", "KeyError", "IndexError"}

except_Exception(e) == e \in ExceptionClasses

\* requests.get(...) followed by raise_for_status(): what the call can raise
RequestErrors == {"ConnectionError", "Timeout", "HTTPError"}

(***************************************************************************)
(* get_sapphaya_data                                                       *)
(***************************************************************************)
retries == 3
SLEEP_SECONDS == 3
BANK_LEVEL == 13870

target_tumbon == "Pho Nang Dam Ok"
target_station_name == "Sapphaya"

\* bounds of the drawn responses
MaxItems == 2

\* the waterlevel_msl field of a record: JSON null, a number, a string, or
\* a value float() rejects with a TypeError
WaterFields ==
    {[k |-> "null"], [k |-> "list"]}
    \cup {[k |-> "num", v |-> n] : n \in {0, 11504, 12880}}
    \cup {[k |-> "str", s |-> t] : t \in {<<"1", "2", ".", "1">>, <<"-">>}}

Items ==
    {[isdict |-> TRUE, tumbon |-> target_tumbon, station |-> target_station_name,
      wl |-> f] : f \in WaterFields}
    \cup {[isdict |-> TRUE, tumbon |-> target_tumbon, station |-> "Chao Phraya Dam",
           wl |-> [k |-> "num", v |-> 16000]],
          [isdict |-> TRUE, tumbon |-> "Bang Luang", station |-> target_station_name,
           wl |-> [k |-> "num", v |-> 9000]],
          [isdict |-> FALSE, tumbon |-> "", station |-> "", wl |-> [k |-> "null"]]}

SapphayaResponses ==
    {[kind |-> "exc", e |-> x] : x \in RequestErrors \cup {"JSONDecodeError"}}
    \cup {[kind |-> "ok", data |-> d] :
            d \in UNION {[1..n -> Items] : n \in 0..MaxItems}}

\* lines 351-365 without the inner try: the ValueError of float() leaves
\* the loop body
sapphaya_record_no_inner_try(item) ==
    LET wl_str == item.wl
    IN  CASE wl_str.k = "null" ->
               [o |-> "return", water_level |-> None, bank_level |-> Some(BANK_LEVEL)]
          [] wl_str.k = "num" ->
               [o |-> "return", water_level |-> Some(wl_str.v),
                bank_level |-> Some(BANK_LEVEL)]
          [] wl_str.k = "str" ->
               IF float(wl_str.s) = None THEN [o |-> "exc", e |-> "ValueError"]
               ELSE [o |-> "return", water_level |-> float(wl_str.s),
                     bank_level |-> Some(BANK_LEVEL)]
          [] OTHER ->
               [o |-> "exc", e |-> "TypeError"]

\* lines 351-365: the matching record's level and the fixed bank height
sapphaya_record(item) ==
    LET wl_str == item.wl
    IN  CASE wl_str.k = "null" ->
               [o |-> "return", water_level |-> None, bank_level |-> Some(BANK_LEVEL)]
          [] wl_str.k = "num" ->
               [o |-> "return", water_level |-> Some(wl_str.v),
                bank_level |-> Some(BANK_LEVEL)]
          [] wl_str.k = "str" ->
               \* a ValueError of float() is caught at line 356
               [o |-> "return", water_level |-> float(wl_str.s),
                bank_level |-> Some(BANK_LEVEL)]
          [] OTHER ->
               [o |-> "exc", e |-> "TypeError"]

sapphaya_matches(item) ==
    item.tumbon = target_tumbon /\ item.station = target_station_name

\* lines 334-368: the body of one attempt, up to the first record that
\* matches or that is no dict (item.get raises)
sapphaya_try(resp) ==
    IF resp.kind = "exc" THEN [o |-> "exc", e |-> resp.e]
    ELSE LET data == resp.data
             stop == {i \in 1..Len(data) :
                        ~data[i].isdict \/ sapphaya_matches(data[i])}
         IN  IF stop = {} THEN [o |-> "nomatch"]
             ELSE LET i == CHOOSE j \in stop : \A m \in stop : j <= m
                  IN  IF ~data[i].isdict THEN [o |-> "exc", e |-> "AttributeError"]
                      ELSE sapphaya_record(data[i])

\* an except clause for the errors of the request alone
except_RequestException(e) == e \in RequestErrors

\* line 369
sapphaya_except(e) == except_Exception(e)

\* a sleep after every failed attempt, the last one too
sapphaya_sleeps_always(a) == TRUE

\* line 371
sapphaya_sleeps(a) == a < retries - 1

\* One iteration of the loop of get_sapphaya_data, with the return after
\* the loop when this was the last one, and the assignment of line 546.
SapphayaAttempt ==
    /\ pc = "get_sapphaya_data"
    /\ attempt < retries
    /\ \E resp \in SapphayaResponses :
         LET out  == sapphaya_try(resp)
             req  == Append(log, <<"wl_request", attempt>>)
         IN  /\ IF out.o = "return"
                THEN /\ water_level' = out.water_level
                     /\ response' = resp
                     /\ bank_level' = out.bank_level
                     /\ log' = req
                     /\ pc' = "fetch_chao_phraya_dam_discharge"
                     /\ UNCHANGED <<attempt, raised>>
                ELSE IF out.o = "exc" /\ ~sapphaya_except(out.e)
                THEN /\ raised' = TRUE
                     /\ log' = req
                     /\ pc' = "crashed"
                     /\ response' = resp
                     /\ UNCHANGED <<attempt, water_level, bank_level>>
                ELSE /\ log' = IF sapphaya_sleeps(attempt)
                               THEN Append(req, <<"wl_sleep", SLEEP_SECONDS>>)
                               ELSE req
                     /\ attempt' = attempt + 1
                     /\ IF attempt + 1 < retries
                        THEN UNCHANGED <<pc, response, water_level, bank_level>>
                        ELSE /\ water_level' = None
                             /\ bank_level' = None
                             /\ response' = resp
                             /\ pc' = "fetch_chao_phraya_dam_discharge"
                     /\ UNCHANGED raised
    /\ UNCHANGED <<LINE_TOKEN, dam_discharge, hist_2567, hist_2554, core_message,
                   weather_alert, final_message, posted, fn>>

(***************************************************************************)
(* fetch_chao_phraya_dam_discharge                                         *)
(***************************************************************************)
\* data[0]['itc_water']['C13']['storage']: JSON null, a number or a string
StorageFields ==
    {[k |-> "null"]}
    \cup {[k |-> "num", v |-> n] : n \in {0, 1800000, 2400000, 2401000}}
    \cup {[k |-> "str", s |-> t] :
            t \in {<<"1", ",", "8", "0", "1">>, <<"2", ",", "5", "0", "0">>,
                   <<"n", "/", "a">>, <<>>}}

\* what the single GET brings: an error of the request, a page without the
\* json_data pattern, a json_data that json.loads rejects, one without the
\* keys (or of another shape), or one with the storage field
DamPages ==
    {[kind |-> "exc", e |-> x] : x \in RequestErrors}
    \cup {[kind |-> "nopattern"], [kind |-> "badjson"]}
    \cup {[kind |-> "nokey", e |-> x] : x \in {"KeyError", "IndexError", "TypeError"}}
    \cup {[kind |-> "storage", storage |-> f] : f \in StorageFields}

\* lines 383-407: the body of the try
dam_try(page) ==
    CASE page.kind = "exc"       -> [o |-> "exc", e |-> page.e]
      [] page.kind = "nopattern" -> [o |-> "return", value |-> None]
      [] page.kind = "badjson"   -> [o |-> "exc", e |-> "JSONDecodeError"]
      [] page.kind = "nokey"     -> [o |-> "exc", e |-> page.e]
      [] OTHER ->
           LET water_storage == page.storage
           IN  CASE water_storage.k = "null" -> [o |-> "fallthrough"]
                 [] water_storage.k = "num" ->
                      [o |-> "return", value |-> Some(water_storage.v)]
                 [] OTHER ->
                      LET value == float(replace_commas(water_storage.s))
                      IN  IF value = None THEN [o |-> "exc", e |-> "ValueError"]
                          ELSE [o |-> "return", value |-> value]

\* an except clause of line 408 that leaves parse and key errors out
dam_except_requests(e) == e \in RequestErrors

\* line 408
dam_except(e) == except_Exception(e)

\* The call of line 548: one request, then the value or None.
FetchDamDischarge ==
    /\ pc = "fetch_chao_phraya_dam_discharge"
    /\ \E page \in DamPages :
         LET out == dam_try(page)
         IN  /\ log' = Append(log, <<"dam_request", 0>>)
             /\ response' = page
             /\ IF out.o = "exc" /\ ~dam_except(out.e)
                THEN /\ raised' = TRUE
                     /\ pc' = "crashed"
                     /\ UNCHANGED dam_discharge
                ELSE /\ dam_discharge' = IF out.o = "return" THEN out.value ELSE None
                     /\ pc' = "get_historical_from_excel_2567"
                     /\ UNCHANGED raised
    /\ UNCHANGED <<LINE_TOKEN, attempt, water_level, bank_level, hist_2567, hist_2554,
                   core_message, weather_alert, final_message, posted, fn>>

(***************************************************************************)
(* get_historical_from_excel                                               *)
(***************************************************************************)
\* the workbook of a year: missing, unreadable (or without the columns),
\* without today's row, or with today's row and its discharge cell
Workbooks ==
    {[kind |-> "nofile"], [kind |-> "norow"]}
    \cup {[kind |-> "exc", e |-> x] : x \in {"ValueError", "KeyError"}}
    \cup {[kind |-> "row", discharge |-> d] : d \in {12500900}}

\* int(): towards zero, of a cell that is not negative
int(x) == x \div 1000

\* lines 269-287: an int of whole m3/s, or None
get_historical_from_excel(book) ==
    CASE book.kind = "nofile" -> None
      [] book.kind = "norow"  -> None
      [] book.kind = "exc"    -> None
      [] OTHER                -> Some(int(book.discharge))

\* line 550 made to depend on the core data: no lookup once one is absent
Historical2567_only_with_core ==
    /\ pc = "get_historical_from_excel_2567"
    /\ IF water_level = None \/ dam_discharge = None
       THEN hist_2567' = None /\ UNCHANGED log
       ELSE \E book \in Workbooks :
              /\ hist_2567' = get_historical_from_excel(book)
              /\ log' = Append(log, <<"historical", 2567>>)
    /\ response' = Unset
    /\ pc' = "get_historical_from_excel_2554"
    /\ UNCHANGED <<LINE_TOKEN, attempt, water_level, bank_level, dam_discharge,
                   hist_2554, core_message, weather_alert, final_message, posted,
                   raised, fn>>

\* lines 550-551
Historical2567 ==
    /\ pc = "get_historical_from_excel_2567"
    /\ \E book \in Workbooks :
         /\ hist_2567' = get_historical_from_excel(book)
         /\ response' = Unset
         /\ log' = Append(log, <<"historical", 2567>>)
         /\ pc' = "get_historical_from_excel_2554"
    /\ UNCHANGED <<LINE_TOKEN, attempt, water_level, bank_level, dam_discharge,
                   hist_2554, core_message, weather_alert, final_message, posted,
                   raised, fn>>

Historical2554 ==
    /\ pc = "get_historical_from_excel_2554"
    /\ \E book \in Workbooks :
         /\ hist_2554' = get_historical_from_excel(book)
         /\ log' = Append(log, <<"historical", 2554>>)
         /\ pc' = "compose"
    /\ UNCHANGED <<LINE_TOKEN, attempt, response, water_level, bank_level,
                   dam_discharge, hist_2567, core_message, weather_alert,
                   final_message, posted, raised, fn>>

(***************************************************************************)
(* analyze_and_create_message                                              *)
(***************************************************************************)
DISCHARGE_CRITICAL == 2400000
DISTANCE_CRITICAL == 1000
DISCHARGE_WATCH == 1800000
DISTANCE_WATCH == 2000

\* the two conditions of line 452 joined by `and`
is_critical_and(dam_discharge_, distance_to_bank) ==
    /\ dam_discharge_ # None
    /\ dam_discharge_[1] > 2400000
    /\ distance_to_bank < 1000

\* line 452
is_critical(dam_discharge_, distance_to_bank) ==
    /\ dam_discharge_ # None
    /\ (dam_discharge_[1] > DISCHARGE_CRITICAL \/ distance_to_bank < DISTANCE_CRITICAL)

\* line 461
is_watch(dam_discharge_, distance_to_bank) ==
    /\ dam_discharge_ # None
    /\ (dam_discharge_[1] > DISCHARGE_WATCH \/ distance_to_bank < DISTANCE_WATCH)

\* lines 453-460, 462-468, 470-475: icon, header and summary lines of a tier
critical_tier ==
    [ICON |-> "red", HEADER |-> "highest-level warning",
     summary_lines |-> <<[t |-> "advice", s |-> "advice:"],
                         [t |-> "advice", s |-> "1. prepare to evacuate"],
                         [t |-> "advice", s |-> "2. move belongings up at once"],
                         [t |-> "advice", s |-> "3. keep off the riverside roads"]>>]

watch_tier ==
    [ICON |-> "yellow", HEADER |-> "watch",
     summary_lines |-> <<[t |-> "advice", s |-> "advice:"],
                         [t |-> "advice", s |-> "1. riverside houses start moving up"],
                         [t |-> "advice", s |-> "2. follow the situation closely"]>>]

normal_tier(distance_to_bank) ==
    [ICON |-> "green", HEADER |-> "normal",
     summary_lines |-> <<[t |-> "safe", distance |-> Format2f(distance_to_bank)],
                         [t |-> "advice", s |-> "life goes on as usual"]>>]

\* the chain of lines 452-469 with the watch test first
tier_lines_watch_first(dam_discharge_, distance_to_bank) ==
    IF is_watch(dam_discharge_, distance_to_bank) THEN watch_tier
    ELSE IF is_critical(dam_discharge_, distance_to_bank) THEN critical_tier
    ELSE normal_tier(distance_to_bank)

\* lines 452-475: the if / elif / else chain
tier_lines(dam_discharge_, distance_to_bank) ==
    IF is_critical(dam_discharge_, distance_to_bank) THEN critical_tier
    ELSE IF is_watch(dam_discharge_, distance_to_bank) THEN watch_tier
    ELSE normal_tier(distance_to_bank)

\* lines 499-502 with truth tests in place of `is not None`
hist_lines_truthy(h2567, h2554) ==
    (IF h2567 # None /\ h2567[1] # 0
     THEN <<[t |-> "hist", year |-> 2567, v |-> h2567[1]]>> ELSE <<>>)
    \o (IF h2554 # None /\ h2554[1] # 0
        THEN <<[t |-> "hist", year |-> 2554, v |-> h2554[1]]>> ELSE <<>>)

\* lines 499-502
hist_lines(h2567, h2554) ==
    (IF h2567 # None THEN <<[t |-> "hist", year |-> 2567, v |-> h2567[1]]>> ELSE <<>>)
    \o (IF h2554 # None THEN <<[t |-> "hist", year |-> 2554, v |-> h2554[1]]>> ELSE <<>>)

\* lines 492-495
dam_line(dam_discharge_) ==
    IF dam_discharge_ # None THEN [t |-> "dam", v |-> dam_discharge_[1]]
    ELSE [t |-> "dam_unavailable"]

\* lines 450-509.  water_level_ and bank_height are floats; dam_discharge_
\* and the two historical values are optional.  The timestamp line carries
\* no time here.
analyze_and_create_message(water_level_, dam_discharge_, bank_height, h2567, h2554) ==
    LET distance_to_bank == bank_height - water_level_
        tier == tier_lines(dam_discharge_, distance_to_bank)
    IN  <<[t |-> "header", ICON |-> tier.ICON, HEADER |-> tier.HEADER],
          [t |-> "location"],
          [t |-> "timestamp"],
          [t |-> "blank"],
          [t |-> "title", s |-> "water level and bank"],
          [t |-> "water", v |-> Format2f(water_level_)],
          [t |-> "bank", v |-> Format2f(bank_height),
           below |-> Format2f(distance_to_bank)],
          [t |-> "blank"],
          [t |-> "title", s |-> "dam discharge"],
          dam_line(dam_discharge_),
          [t |-> "blank"],
          [t |-> "title", s |-> "historical comparison"]>>
        \o hist_lines(h2567, h2554)
        \o <<[t |-> "blank"],
             [t |-> "title", s |-> "summary"]>>
        \o tier.summary_lines

(***************************************************************************)
(* create_error_message and the core message of __main__                   *)
(***************************************************************************)
\* lines 515-521
create_error_message(station_status, discharge_status) ==
    <<[t |-> "error_header"],
      [t |-> "timestamp"],
      [t |-> "blank"],
      [t |-> "station_status", s |-> station_status],
      [t |-> "discharge_status", s |-> discharge_status],
      [t |-> "blank"],
      [t |-> "check_log"]>>

\* lines 562-563 with a truth test in place of `is not None`
status_of_truthy(value) ==
    IF value # None /\ value[1] # 0 THEN "succeeded" ELSE "failed"

\* lines 562-563
status_of(value) == IF value # None THEN "succeeded" ELSE "failed"

\* line 552 without its test of the discharge
all_present_no_dam(wl, bank, dam) == wl # None /\ bank # None

\* line 552
all_present(wl, bank, dam) == wl # None /\ bank # None /\ dam # None

\* lines 552-564
core_message_of(wl, bank, dam, h2567, h2554) ==
    IF all_present(wl, bank, dam)
    THEN analyze_and_create_message(wl[1], dam, bank[1], h2567, h2554)
    ELSE create_error_message(status_of(wl), status_of(dam))

MainCompose ==
    /\ pc = "compose"
    /\ core_message' = core_message_of(water_level, bank_level, dam_discharge,
                                       hist_2567, hist_2554)
    /\ log' = Append(log, <<"compose", 0>>)
    /\ pc' = "get_openweather_alert"
    /\ UNCHANGED <<LINE_TOKEN, attempt, response, water_level, bank_level,
                   dam_discharge, hist_2567, hist_2554, weather_alert, final_message,
                   posted, raised, fn>>

(***************************************************************************)
(* get_openweather_alert                                                   *)
(***************************************************************************)
MIN_TEMP == -999000
HEAT_THRESHOLD == 35000
RAIN_IDS == {95, 96, 99, 500, 501, 502, 503, 504}

\* bound of the drawn forecast lists
MaxEntries == 2

\* An entry of data["list"]: whether dt_txt holds today's date, its HH:MM
\* part (None when dt_txt is shorter than 16 characters), main.temp (None
\* when missing or no number) and weather[0].id (None when weather is empty).
Entries ==
    {[today |-> FALSE, hhmm |-> Some("12:00"), temp |-> Some(38500), wid |-> Some(502)],
     [today |-> TRUE,  hhmm |-> Some("06:00"), temp |-> None,        wid |-> None],
     [today |-> TRUE,  hhmm |-> Some("09:00"), temp |-> Some(34940), wid |-> Some(800)],
     [today |-> TRUE,  hhmm |-> Some("12:00"), temp |-> Some(35000), wid |-> Some(800)],
     [today |-> TRUE,  hhmm |-> Some("15:00"), temp |-> Some(36960), wid |-> Some(500)],
     [today |-> TRUE,  hhmm |-> Some("18:00"), temp |-> Some(37000), wid |-> Some(95)],
     [today |-> TRUE,  hhmm |-> None,          temp |-> Some(31000), wid |-> Some(501)]}

Forecasts ==
    {[kind |-> "exc", e |-> x] : x \in RequestErrors \cup {"JSONDecodeError", "AttributeError"}}
    \cup {[kind |-> "ok", list |-> l] :
            l \in UNION {[1..n -> Entries] : n \in 0..MaxEntries}}

\* lines 84-98: the loop over the entries, as a fold from the left
RECURSIVE forecast_scan(_)
forecast_scan(list) ==
    IF list = <<>> THEN [max_temp |-> MIN_TEMP, rain_detected_time |-> None]
    ELSE LET acc   == forecast_scan(SubSeq(list, 1, Len(list) - 1))
             entry == list[Len(list)]
         IN  IF ~entry.today THEN acc
             ELSE [max_temp |->
                     IF entry.temp # None /\ entry.temp[1] > acc.max_temp
                     THEN entry.temp[1] ELSE acc.max_temp,
                   rain_detected_time |->
                     IF /\ entry.wid # None
                        /\ entry.wid[1] \in RAIN_IDS
                        /\ acc.rain_detected_time = None
                     THEN entry.hhmm ELSE acc.rain_detected_time]

\* round(x, 1): x in thousandths to the nearest tenth, a tie to the even tenth
round1(x) ==
    LET q == x \div 100
        r == x % 100
    IN  IF r < 50 THEN q
        ELSE IF r > 50 THEN q + 1
        ELSE IF q % 2 = 0 THEN q ELSE q + 1

\* line 101 with > in place of >=
is_hot_strict(max_temp) == max_temp > HEAT_THRESHOLD

\* line 101
is_hot(max_temp) == max_temp >= HEAT_THRESHOLD

\* lines 100-114: the messages, joined by blank lines
weather_messages(scan) ==
    LET messages ==
          (IF is_hot(scan.max_temp)
           THEN <<[t |-> "heat", max_temp |-> round1(scan.max_temp)]>> ELSE <<>>)
          \o (IF scan.rain_detected_time # None
              THEN <<[t |-> "rain", time |-> scan.rain_detected_time[1]]>> ELSE <<>>)
    IN  IF messages = <<>> THEN <<[t |-> "weather_normal"]>> ELSE messages

\* lines 60-114: the body of the try
weather_try(resp) ==
    IF resp.kind = "exc" THEN [o |-> "exc", e |-> resp.e]
    ELSE [o |-> "return", value |-> weather_messages(forecast_scan(resp.list))]

\* an except clause of line 115 for the errors of the request alone
weather_except_requests(e) == e \in RequestErrors

\* line 115
weather_except(e) == except_Exception(e)

\* line 116: the text returned in place of the alert
weather_error_text(e) == <<[t |-> "weather_error", e |-> e]>>

\* lines 570-577
final_message_of(core, alert) ==
    IF alert # <<>>
    THEN core \o <<[t |-> "blank"], [t |-> "weather_heading"]>> \o alert
              \o <<[t |-> "blank"], [t |-> "municipality"]>>
    ELSE core \o <<[t |-> "blank"], [t |-> "municipality"]>>

\* lines 566-577: the weather call and the final message
MainWeather ==
    /\ pc = "get_openweather_alert"
    /\ \E resp \in Forecasts :
         LET out   == weather_try(resp)
             alert == IF out.o = "return" THEN out.value ELSE weather_error_text(out.e)
         IN  /\ log' = Append(log, <<"weather_request", 0>>)
             /\ IF out.o = "exc" /\ ~weather_except(out.e)
                THEN /\ raised' = TRUE
                     /\ pc' = "crashed"
                     /\ UNCHANGED <<weather_alert, final_message>>
                ELSE /\ weather_alert' = alert
                     /\ final_message' = final_message_of(core_message, alert)
                     /\ pc' = "send_line_broadcast"
                     /\ UNCHANGED raised
    /\ UNCHANGED <<LINE_TOKEN, attempt, response, water_level, bank_level,
                   dam_discharge, hist_2567, hist_2554, core_message, posted, fn>>

(***************************************************************************)
(* send_line_broadcast                                                     *)
(***************************************************************************)
\* line 526: None and the empty string are both false
has_token(token) == token # None /\ token # Some("")

\* what requests.post and raise_for_status bring
PostOutcomes == {"ok"} \cup RequestErrors

\* line 538
line_except(e) == except_Exception(e)

\* lines 525-539 and the call of line 581
SendLineBroadcast ==
    /\ pc = "send_line_broadcast"
    /\ IF has_token(LINE_TOKEN)
       THEN \E res \in PostOutcomes :
              /\ posted' = Append(posted, [text |-> final_message, result |-> res])
              /\ log' = Append(log, <<"notifier", 1>>)
              /\ IF res # "ok" /\ ~line_except(res)
                 THEN raised' = TRUE /\ pc' = "crashed"
                 ELSE UNCHANGED raised /\ pc' = "done"
       ELSE /\ log' = Append(log, <<"notifier", 0>>)
            /\ pc' = "done"
            /\ UNCHANGED <<posted, raised>>
    /\ UNCHANGED <<LINE_TOKEN, attempt, response, water_level, bank_level,
                   dam_discharge, hist_2567, hist_2554, core_message, weather_alert,
                   final_message, fn>>

Init ==
    /\ pc = "get_sapphaya_data"
    /\ LINE_TOKEN \in {None, Some(""), Some("token")}
    /\ attempt = 0
    /\ response = Unset
    /\ log = <<>>
    /\ water_level = Unset
    /\ bank_level = Unset
    /\ dam_discharge = Unset
    /\ hist_2567 = Unset
    /\ hist_2554 = Unset
    /\ core_message = Unset
    /\ weather_alert = Unset
    /\ final_message = Unset
    /\ posted = <<>>
    /\ raised = FALSE
    /\ fn = Unset

Next ==
    \/ SapphayaAttempt
    \/ FetchDamDischarge
    \/ Historical2567
    \/ Historical2554
    \/ MainCompose
    \/ MainWeather
    \/ SendLineBroadcast

Spec == Init /\ [][Next]_vars

(***************************************************************************)
(* The composer called on its own: the arguments are drawn, the call is    *)
(* the one action.  The discharge is a float, as the signature has it.     *)
(***************************************************************************)
FnLevels == {0, 11500, 11504, 11870, 12100, 12870, 12880, 14000}
FnBanks == {13870, 12000}
FnDischarges == {0, 1200000, 1800000, 1800500, 2400000, 2400500, 2500000}
FnHist == {None, Some(0), Some(12500)}

InitFn ==
    /\ pc = "call"
    /\ fn \in [water_level : FnLevels, bank_height : FnBanks,
                dam_discharge : {Some(d) : d \in FnDischarges},
                hist_2567 : FnHist, hist_2554 : FnHist]
    /\ LINE_TOKEN = None
    /\ attempt = 0
    /\ response = Unset
    /\ log = <<>>
    /\ water_level = Unset
    /\ bank_level = Unset
    /\ dam_discharge = Unset
    /\ hist_2567 = Unset
    /\ hist_2554 = Unset
    /\ core_message = Unset
    /\ weather_alert = Unset
    /\ final_message = Unset
    /\ posted = <<>>
    /\ raised = FALSE

CallAnalyze ==
    /\ pc = "call"
    /\ core_message' = analyze_and_create_message(fn.water_level, fn.dam_discharge,
                            fn.bank_height, fn.hist_2567, fn.hist_2554)
    /\ pc' = "returned"
    /\ UNCHANGED <<LINE_TOKEN, attempt, response, log, water_level, bank_level, dam_discharge,
                   hist_2567, hist_2554, weather_alert, final_message, posted,
                   raised, fn>>

NextFn ==
    \/ CallAnalyze

FnSpec == InitFn /\ [][NextFn]_vars

(***************************************************************************)
(* The forecast source called on its own: the response of its request is   *)
(* drawn, the call is the one action.                                      *)
(***************************************************************************)
InitWeather ==
    /\ pc = "call_weather"
    /\ fn \in [forecast : Forecasts]
    /\ LINE_TOKEN = None
    /\ attempt = 0
    /\ response = Unset
    /\ log = <<>>
    /\ water_level = Unset
    /\ bank_level = Unset
    /\ dam_discharge = Unset
    /\ hist_2567 = Unset
    /\ hist_2554 = Unset
    /\ core_message = Unset
    /\ weather_alert = Unset
    /\ final_message = Unset
    /\ posted = <<>>
    /\ raised = FALSE

\* lines 59-116
CallWeather ==
    /\ pc = "call_weather"
    /\ LET out == weather_try(fn.forecast)
       IN  /\ log' = Append(log, <<"weather_request", 0>>)
           /\ IF out.o = "exc" /\ ~weather_except(out.e)
              THEN /\ raised' = TRUE
                   /\ pc' = "crashed"
                   /\ UNCHANGED weather_alert
              ELSE /\ weather_alert' = IF out.o = "return" THEN out.value
                                       ELSE weather_error_text(out.e)
                   /\ pc' = "weather_returned"
                   /\ UNCHANGED raised
    /\ UNCHANGED <<LINE_TOKEN, attempt, response, water_level, bank_level,
                   dam_discharge, hist_2567, hist_2554, core_message, final_message,
                   posted, fn>>

NextWeather ==
    \/ CallWeather

WeatherSpec == InitWeather /\ [][NextWeather]_vars

(***************************************************************************)
(* Properties                                                              *)
(***************************************************************************)
Composed == pc \in {"get_openweather_alert", "send_line_broadcast", "done"}
Finalised == pc \in {"send_line_broadcast", "done"}
IsErrorReport(m) == m[1].t = "error_header"
IsSituationReport(m) == m[1].t = "header"
LinesOf(m, tag) == {i \in DOMAIN m : m[i].t = tag}

\* C1: once the core message is composed, an absent water level or an
\* absent dam discharge means the core message is the error report and not
\* the situation report; a situation report means water level, bank level
\* and discharge are all present and it has no "unavailable" line; and the
\* message handed to the notifier, and posted, begins with that core message.
C1_ErrorReportUnlessAllPresent ==
    Composed =>
      /\ (water_level = None \/ dam_discharge = None) =>
            IsErrorReport(core_message) /\ ~IsSituationReport(core_message)
      /\ IsSituationReport(core_message) =>
            /\ water_level # None /\ bank_level # None /\ dam_discharge # None
            /\ LinesOf(core_message, "dam_unavailable") = {}
      /\ IsSituationReport(core_message) \/ IsErrorReport(core_message)
      /\ Finalised =>
            /\ SubSeq(final_message, 1, Len(core_message)) = core_message
            /\ \A i \in DOMAIN posted : posted[i].text = final_message

C1_Witness ==
    /\ pc = "done"
    /\ water_level # None
    /\ dam_discharge = None
    /\ IsErrorReport(core_message)
    /\ Len(posted) = 1
    /\ IsErrorReport(posted[1].text)

FnDistance == fn.bank_height - fn.water_level
FnDischarge == fn.dam_discharge[1]
FnCriticalCondition == FnDistance < 1000 \/ FnDischarge > 2400000
FnWatchCondition == FnDistance < 2000 \/ FnDischarge > 1800000
IsTier(m, icon, header) == m[1].t = "header" /\ m[1].ICON = icon /\ m[1].HEADER = header

\* C2: the composer called with bank - water_level < 1.0 or discharge > 2400
\* returns a report of the CRITICAL tier: red icon, highest-level header.
C2_CriticalTier ==
    pc = "returned" =>
      (FnCriticalCondition => IsTier(core_message, "red", "highest-level warning"))

C2_Witness ==
    /\ pc = "returned"
    /\ FnDistance < 1000
    /\ FnDischarge <= 1800000
    /\ IsTier(core_message, "red", "highest-level warning")

\* C3: the composer returns the WATCH tier exactly when the CRITICAL
\* condition is false and bank - water_level < 2.0 or discharge > 1800: the
\* CRITICAL test comes first and wins, the WATCH test comes before NORMAL.
C3_WatchTier ==
    pc = "returned" =>
      /\ (~FnCriticalCondition /\ FnWatchCondition) <=>
            IsTier(core_message, "yellow", "watch")
      /\ (FnCriticalCondition /\ FnWatchCondition) =>
            IsTier(core_message, "red", "highest-level warning")

C3_Witness ==
    /\ pc = "returned"
    /\ FnDistance >= 1000
    /\ FnDistance < 2000
    /\ FnDischarge <= 1800000
    /\ IsTier(core_message, "yellow", "watch")

\* C4: the composer called with discharge <= 1800 and bank - water_level
\* >= 2.0 returns the NORMAL tier, and its one advisory line with the
\* distance holds bank - water_level to the nearest hundredth.
C4_NormalTier ==
    pc = "returned" =>
      ((FnDischarge <= 1800000 /\ FnDistance >= 2000) =>
         /\ IsTier(core_message, "green", "normal")
         /\ Cardinality(LinesOf(core_message, "safe")) = 1
         /\ \A i \in LinesOf(core_message, "safe") :
              10 * core_message[i].distance - FnDistance \in -5..5)

C4_Witness ==
    /\ pc = "returned"
    /\ fn.water_level = 11500
    /\ fn.bank_height = 13870
    /\ FnDischarge = 1200000
    /\ IsTier(core_message, "green", "normal")
    /\ \E i \in LinesOf(core_message, "safe") : core_message[i].distance = 237

EventsOf(names) == SelectSeq(log, LAMBDA e : e[1] \in names)
CountOf(name) == Len(EventsOf({name}))
LastEvent == log[Len(log)][1]
WlEvents == EventsOf({"wl_request", "wl_sleep"})

\* the response of an attempt of the water-level source that failed as a
\* request, or that holds no record of the target subdistrict and station
WlRequestFailed(resp) == resp.kind = "exc"
WlNoMatch(resp) ==
    /\ resp.kind = "ok"
    /\ \A i \in DOMAIN resp.data :
         ~(resp.data[i].tumbon = "Pho Nang Dam Ok" /\ resp.data[i].station = "Sapphaya")

\* C5: the water-level source makes one request per attempt and at most 3;
\* its requests and sleeps alternate, each sleep of 3 seconds, and the
\* function never ends on a sleep; an attempt whose request failed or that
\* found no matching record is followed by another attempt unless it was the
\* third, and then the result is (None, None); no exception leaves it.
C5_RetryLoop ==
    /\ \A i \in DOMAIN WlEvents :
         WlEvents[i] = IF i % 2 = 1 THEN <<"wl_request", (i - 1) \div 2>>
                       ELSE <<"wl_sleep", 3>>
    /\ CountOf("wl_request") <= 3
    /\ raised => LastEvent # "wl_request"
    /\ pc = "get_sapphaya_data" =>
         /\ CountOf("wl_request") = attempt
         /\ attempt < 3
         /\ attempt > 0 =>
              /\ WlEvents[Len(WlEvents)][1] = "wl_sleep"
              /\ ENABLED SapphayaAttempt
    /\ pc \notin {"get_sapphaya_data", "crashed"} =>
         /\ WlEvents[Len(WlEvents)][1] = "wl_request"
         /\ bank_level = None => water_level = None /\ CountOf("wl_request") = 3
    /\ (pc = "fetch_chao_phraya_dam_discharge"
          /\ (WlRequestFailed(response) \/ WlNoMatch(response))) =>
         /\ CountOf("wl_request") = 3
         /\ water_level = None
         /\ bank_level = None

C5_Witness ==
    /\ pc = "fetch_chao_phraya_dam_discharge"
    /\ water_level = None
    /\ bank_level = None
    /\ ~raised
    /\ log = <<<<"wl_request", 0>>, <<"wl_sleep", 3>>, <<"wl_request", 1>>,
               <<"wl_sleep", 3>>, <<"wl_request", 2>>>>

\* C6: in the error report there is one water-level status line and one
\* dam-discharge status line; the first reads "succeeded" when the water
\* level is present and "failed" when it is absent, the second likewise for
\* the discharge.
C6_StatusLines ==
    (Composed /\ IsErrorReport(core_message)) =>
      /\ Cardinality(LinesOf(core_message, "station_status")) = 1
      /\ Cardinality(LinesOf(core_message, "discharge_status")) = 1
      /\ \A i \in LinesOf(core_message, "station_status") :
           core_message[i].s = IF water_level = None THEN "failed" ELSE "succeeded"
      /\ \A i \in LinesOf(core_message, "discharge_status") :
           core_message[i].s = IF dam_discharge = None THEN "failed" ELSE "succeeded"

C6_Witness ==
    /\ Composed
    /\ water_level # None
    /\ dam_discharge = None
    /\ IsErrorReport(core_message)
    /\ \E i \in LinesOf(core_message, "station_status") : core_message[i].s = "succeeded"
    /\ \E i \in LinesOf(core_message, "discharge_status") : core_message[i].s = "failed"

\* C7: no run stops before the notifier: every state but the end of the
\* run has a next step and no exception leaves a function.  At the end the
\* call of send_line_broadcast is the last step, the only one of its kind
\* and later than the composition; the message it was given begins with the
\* core message, which is the error report when the water level or the
\* discharge is absent; with a token set that message is what was posted.
C7_NotifierFires ==
    /\ ~raised
    /\ pc # "done" => ENABLED Next
    /\ CountOf("notifier") > 0 => CountOf("compose") = 1
    /\ pc = "done" =>
         /\ LastEvent = "notifier"
         /\ CountOf("notifier") = 1
         /\ SubSeq(final_message, 1, Len(core_message)) = core_message
         /\ (water_level = None \/ dam_discharge = None) =>
               IsErrorReport(final_message)
         /\ Len(posted) = IF LINE_TOKEN = <<"token">> THEN 1 ELSE 0
         /\ \A i \in DOMAIN posted : posted[i].text = final_message

C7_Witness ==
    /\ pc = "done"
    /\ water_level = None
    /\ bank_level = None
    /\ dam_discharge # None
    /\ LastEvent = "notifier"
    /\ Len(posted) = 1
    /\ IsErrorReport(posted[1].text)

\* the pages on which the dam source has no value to return
DamFailure(page) ==
    \/ page.kind \in {"exc", "nopattern", "badjson", "nokey"}
    \/ /\ page.kind = "storage"
       /\ \/ page.storage.k = "null"
          \/ page.storage.k = "str" /\ page.storage.s \in {<<"n", "/", "a">>, <<>>}

\* C8: the dam source makes one request and no second one, whatever the
\* first brought; on a failed request, a page without the pattern, a JSON
\* or number that does not parse, a missing key or a null value it returns
\* None, on any other page a value; no exception leaves it.
C8_DamSingleAttempt ==
    /\ CountOf("dam_request") <= 1
    /\ raised => LastEvent # "dam_request"
    /\ pc \in {"get_historical_from_excel_2567", "get_historical_from_excel_2554",
               "compose", "get_openweather_alert", "send_line_broadcast", "done"} =>
         CountOf("dam_request") = 1
    /\ pc = "get_historical_from_excel_2567" =>
         /\ LastEvent = "dam_request"
         /\ DamFailure(response) <=> dam_discharge = None

C8_Witness ==
    /\ pc = "get_historical_from_excel_2567"
    /\ response.kind = "badjson"
    /\ dam_discharge = None
    /\ CountOf("dam_request") = 1
    /\ ~raised

\* C9: no exception leaves the weather source; with water level and
\* discharge present the final message is the whole situation report, then
\* the weather heading, the weather text and the municipality, and a failed
\* weather call shows as its one error line after the heading.
C9_WeatherNeverBlocks ==
    /\ raised => LastEvent # "weather_request"
    /\ (Finalised /\ water_level # None /\ dam_discharge # None) =>
         /\ IsSituationReport(core_message)
         /\ \E i \in LinesOf(core_message, "dam") :
              core_message[i].v = dam_discharge[1]
         /\ \E i \in LinesOf(core_message, "water") :
              10 * core_message[i].v - water_level[1] \in -5..5
         /\ LinesOf(core_message, "title") # {}
         /\ final_message = core_message
                \o <<[t |-> "blank"], [t |-> "weather_heading"]>>
                \o weather_alert
                \o <<[t |-> "blank"], [t |-> "municipality"]>>
         /\ weather_alert # <<>>
         /\ LinesOf(final_message, "weather_error") \subseteq {Len(core_message) + 3}
         /\ LinesOf(final_message, "weather_error") # {} => Len(weather_alert) = 1

C9_Witness ==
    /\ pc = "done"
    /\ water_level # None
    /\ dam_discharge # None
    /\ IsSituationReport(core_message)
    /\ LinesOf(weather_alert, "weather_error") = {1}
    /\ Len(posted) = 1
    /\ posted[1].text = final_message

HistYears(m) == {m[i].year : i \in LinesOf(m, "hist")}
HistTitle(m) == CHOOSE i \in LinesOf(m, "title") : m[i].s = "historical comparison"

\* C10: the report of the composer has a line of year 2567 exactly when
\* hist_2567 is not None and a line of year 2554 exactly when hist_2554 is
\* not None, each with its value; the historical section holds these lines
\* and nothing else before the blank line that ends it.
C10_HistoricalLines ==
    pc = "returned" =>
      LET present == {y \in {2567, 2554} :
                        IF y = 2567 THEN fn.hist_2567 # None ELSE fn.hist_2554 # None}
          h == HistTitle(core_message)
          n == Cardinality(present)
      IN  /\ HistYears(core_message) = present
          /\ Cardinality(LinesOf(core_message, "hist")) = n
          /\ LinesOf(core_message, "hist") = (h + 1)..(h + n)
          /\ core_message[h + n + 1].t = "blank"
          /\ \A i \in LinesOf(core_message, "hist") :
               core_message[i].v = IF core_message[i].year = 2567
                                   THEN fn.hist_2567[1] ELSE fn.hist_2554[1]

C10_Witness ==
    /\ pc = "returned"
    /\ fn.hist_2567 = None
    /\ fn.hist_2554 = <<12500>>
    /\ HistYears(core_message) = {2554}
    /\ \E i \in LinesOf(core_message, "hist") : core_message[i].v = 12500

\* the numeric temperatures of today's entries of the drawn forecast
TodayTemps ==
    IF fn.forecast.kind # "ok" THEN {}
    ELSE {fn.forecast.list[i].temp[1] :
            i \in {j \in DOMAIN fn.forecast.list :
                     fn.forecast.list[j].today /\ fn.forecast.list[j].temp # None}}
HeatLines == LinesOf(weather_alert, "heat")

\* C11 as stated: the forecast source returns the heat advisory exactly
\* when one of today's temperatures is 37 C or more.
C11_HeatAt37 ==
    pc = "weather_returned" =>
      (HeatLines # {} <=> \E x \in TodayTemps : x >= 37000)

\* C11 as amended: the forecast source returns the heat advisory exactly
\* when one of today's temperatures is 35 C or more; the advisory is the
\* first message and holds the highest of today's temperatures to the
\* nearest tenth.
C11_HeatAt35 ==
    pc = "weather_returned" =>
      /\ HeatLines # {} <=> \E x \in TodayTemps : x >= 35000
      /\ HeatLines \subseteq {1}
      /\ \A i \in HeatLines :
           \E x \in TodayTemps :
             /\ \A y \in TodayTemps : y <= x
             /\ 100 * weather_alert[i].max_temp - x \in -50..50

C11_Witness ==
    /\ pc = "weather_returned"
    /\ TodayTemps = {35000}
    /\ HeatLines = {1}
    /\ weather_alert[1].max_temp = 350

\* the steps of a run after the water-level source, in the order of lines
\* 548-581, and the position of the run after each
StepNames ==
    <<"dam_request", "historical", "historical", "compose", "weather_request",
      "notifier">>
StepPositions ==
    <<"fetch_chao_phraya_dam_discharge", "get_historical_from_excel_2567",
      "get_historical_from_excel_2554", "compose", "get_openweather_alert",
      "send_line_broadcast", "done">>
LaterEvents == SelectSeq(log, LAMBDA e : e[1] \notin {"wl_request", "wl_sleep"})
Assigned(x) == Len(x) <= 1

\* C12: the steps of a run come one after the other in the order water
\* level, dam discharge, history of 2567, history of 2554, composition,
\* weather, notifier, each once (the water-level requests one to three
\* times), none skipped or repeated whatever the earlier ones brought; a
\* step is taken only when the results of all steps before it are assigned,
\* and the run ends only after all of them.
C12_SequentialSteps ==
    /\ log = WlEvents \o LaterEvents
    /\ Len(LaterEvents) <= 6
    /\ \A i \in DOMAIN LaterEvents : LaterEvents[i][1] = StepNames[i]
    /\ Len(LaterEvents) >= 2 => LaterEvents[2] = <<"historical", 2567>>
    /\ Len(LaterEvents) >= 3 => LaterEvents[3] = <<"historical", 2554>>
    /\ pc = "get_sapphaya_data" => LaterEvents = <<>>
    /\ pc \notin {"get_sapphaya_data", "crashed"} =>
         /\ pc = StepPositions[Len(LaterEvents) + 1]
         /\ CountOf("wl_request") \in 1..3
         /\ Assigned(water_level) /\ Assigned(bank_level)
    /\ Len(LaterEvents) >= 1 => (pc = "crashed" \/ Assigned(dam_discharge))
    /\ Len(LaterEvents) >= 2 => Assigned(hist_2567)
    /\ Len(LaterEvents) >= 3 => Assigned(hist_2554)
    /\ Len(LaterEvents) >= 4 =>
         IsSituationReport(core_message) \/ IsErrorReport(core_message)
    /\ Len(LaterEvents) >= 5 =>
         (pc = "crashed" \/ SubSeq(final_message, 1, Len(core_message)) = core_message)

C12_Witness ==
    /\ pc = "done"
    /\ water_level = None
    /\ dam_discharge = None
    /\ hist_2567 = None
    /\ CountOf("wl_request") = 3
    /\ Len(LaterEvents) = 6
    /\ LaterEvents[6][1] = "notifier"

\* the response holds a matching record, reached by the scan, whose
\* waterlevel_msl is missing or is a string that is no number
WlMatchWithoutLevel(resp) ==
    /\ resp.kind = "ok"
    /\ \E i \in DOMAIN resp.data :
         /\ resp.data[i].tumbon = "Pho Nang Dam Ok"
         /\ resp.data[i].station = "Sapphaya"
         /\ \A j \in 1..(i - 1) :
              /\ resp.data[j].isdict
              /\ ~(resp.data[j].tumbon = "Pho Nang Dam Ok"
                   /\ resp.data[j].station = "Sapphaya")
         /\ \/ resp.data[i].wl.k = "null"
            \/ resp.data[i].wl.k = "str" /\ resp.data[i].wl.s = <<"-">>

====
